---------------------------- MODULE Spec2Model ----------------------------
(***************************************************************************)
(* Model of analyze-app.py: the LINE webhook handler handle_message, the   *)
(* per-symbol analysis analyze_stock (fetch policy, indicators, decision,  *)
(* report) and the helpers is_stock_code, is_market_open and               *)
(* calculate_kd_safe.                                                      *)
(*                                                                         *)
(* Numbers are exact rationals [n, d] (d > 0, lowest terms) instead of     *)
(* IEEE doubles: prices are drawn from values on which the two agree in    *)
(* every comparison the code makes.  A text is a sequence of chunks        *)
(* [piece, idx, n]: n characters taken from the start of the named piece   *)
(* (a per-symbol result, a separator or the truncation marker), so that    *)
(* len(), join and slicing are computed, not assumed.                      *)
(***************************************************************************)
EXTENDS Integers, Sequences, FiniteSets, TLC

VARIABLES
    pc,            \* control location of the handler / of analyze_stock
    tokens,        \* event.message.text, as the pieces between commas
    codes,         \* handle_message: the accepted, normalised symbols
    idx,           \* handle_message: index of the symbol being analysed
    results,       \* handle_message: results, one record per finished symbol
    sent,          \* texts passed to line_bot_api.reply_message, in order
    stock_code,    \* analyze_stock: normalised symbol
    market_open,   \* analyze_stock: what is_market_open() returned
    df,            \* analyze_stock: the frame held in df (None at first)
    data_source,   \* analyze_stock: "none", "1d 5m" or "5d 1d"
    attempt,       \* analyze_stock: loop variable of the running retry loop
    df_from,       \* history: granularity of the request whose response df holds
    n_fine,        \* history: 1d/5m requests issued by the running analysis
    n_coarse,      \* history: 5d/1d requests issued by the running analysis
    seen_fine3,    \* history: a 1d/5m response had at least 3 rows
    seen_coarse,   \* history: a 5d/1d response was not empty
    args,          \* decision step called on its own: its inputs
    ret            \* decision step called on its own: its output

vars == <<pc, tokens, codes, idx, results, sent, stock_code, market_open, df,
          data_source, attempt, df_from, n_fine, n_coarse, seen_fine3, seen_coarse,
          args, ret>>

-----------------------------------------------------------------------------
(* Bounds of the model *)

\* longest frame (number of bars) the provider returns
MaxBars == 6
\* most comma-separated pieces in one inbound text
MaxTokens == 2

-----------------------------------------------------------------------------
(* Exact rational arithmetic *)

Abs(x) == IF x < 0 THEN -x ELSE x

RECURSIVE GCD(_, _)
GCD(a, b) == IF b = 0 THEN a ELSE GCD(b, a % b)

LCM(a, b) == (a \div GCD(a, b)) * b

\* n/d in lowest terms with a positive denominator
Rat(n, d) ==
    LET s == IF d < 0 THEN -1 ELSE 1
        g == GCD(Abs(n), Abs(d))
    IN  [n |-> (s * n) \div g, d |-> (s * d) \div g]

RInt(i) == [n |-> i, d |-> 1]

RAdd(a, b) ==
    LET l == LCM(a.d, b.d)
    IN  Rat(a.n * (l \div a.d) + b.n * (l \div b.d), l)

RNeg(a) == [n |-> -a.n, d |-> a.d]

RSub(a, b) == RAdd(a, RNeg(b))

RMul(a, b) ==
    LET g1 == GCD(Abs(a.n), b.d)
        g2 == GCD(Abs(b.n), a.d)
    IN  Rat((a.n \div g1) * (b.n \div g2), (a.d \div g2) * (b.d \div g1))

\* b # 0
RDiv(a, b) == RMul(a, Rat(b.d, b.n))

RLess(a, b) ==
    LET l == LCM(a.d, b.d)
    IN  a.n * (l \div a.d) < b.n * (l \div b.d)

RLeq(a, b) == ~RLess(b, a)

\* number of decimal digits of a natural number
RECURSIVE NumDigits(_)
NumDigits(i) == IF i < 10 THEN 1 ELSE 1 + NumDigits(i \div 10)

\* q scaled by 10^places and rounded to the nearest integer, ties to even
\* (what round(q, places) and the format spec .<places>f do on an exact value)
RoundScaled(q, scale) ==
    LET num == q.n * scale
        lo  == num \div q.d
        rem == num - lo * q.d
    IN  IF 2 * rem > q.d THEN lo + 1
        ELSE IF 2 * rem < q.d THEN lo
        ELSE IF lo % 2 = 0 THEN lo ELSE lo + 1

-----------------------------------------------------------------------------
(* Frames: what yf.download returns *)

\* one row of a frame; a row the provider left blank has every field NaN
Bar(l, h, c) == [nan |-> FALSE, low |-> l, high |-> h, close |-> c]

NaNBar == [nan |-> TRUE, low |-> 0, high |-> 0, close |-> 0]

\* the rows the provider draws from when every frame is tried: two
\* no-trade ticks at different prices and a blank row
Bars == {Bar(100, 100, 100), Bar(101, 101, 101), NaNBar}

\* yf.download returned None
NoneFrame == [none |-> TRUE, cols |-> FALSE, rows |-> <<>>]

\* a DataFrame; cols says whether it carries the OHLC columns
Frame(rs, c) == [none |-> FALSE, cols |-> c, rows |-> rs]

\* every frame of at most MaxBars rows, None, and a frame without the
\* price columns (an unexpected shape)
AllFrames ==
    {NoneFrame, Frame(<<NaNBar, NaNBar, NaNBar>>, FALSE)}
        \cup {Frame(rs, TRUE) : rs \in UNION {[1..n -> Bars] : n \in 0..MaxBars}}

\* a handful of frames, one per path through analyze_stock
SampleFrames ==
    {NoneFrame,
     Frame(<<>>, TRUE),
     Frame(<<NaNBar, NaNBar, NaNBar>>, FALSE),
     Frame(<<Bar(100, 100, 100), Bar(101, 101, 101)>>, TRUE),
     Frame(<<Bar(101, 101, 101), NaNBar, NaNBar>>, TRUE),
     Frame(<<Bar(100, 102, 101), Bar(100, 102, 101), Bar(100, 102, 101)>>, TRUE)}

\* df.empty
IsEmpty(f) == Len(f.rows) = 0

\* the number of rows of a response (None has none)
NumRows(f) == IF f.none THEN 0 ELSE Len(f.rows)

-----------------------------------------------------------------------------
(* Indicator engine *)

\* the rows of the window of w rows ending at row i that are not NaN
\* (what a rolling aggregate with min_periods=1 works on)
WindowIdx(rows, w, i) ==
    {j \in (IF i - w + 1 < 1 THEN 1 ELSE i - w + 1)..i : ~rows[j].nan}

SetMin(S) == CHOOSE x \in S : \A y \in S : x <= y

SetMax(S) == CHOOSE x \in S : \A y \in S : x >= y

RECURSIVE SumClose(_, _)
SumClose(rows, idxs) ==
    IF idxs = {} THEN 0
    ELSE LET j == SetMin(idxs)
         IN  rows[j].close + SumClose(rows, idxs \ {j})

\* a column cell: NaN or a value
NaNCell == [nan |-> TRUE, v |-> RInt(0)]

Cell(q) == [nan |-> FALSE, v |-> q]

\* df['Close'].rolling(window=w, min_periods=1).mean() at row i
RollingMean(rows, w, i) ==
    LET idxs == WindowIdx(rows, w, i)
    IN  IF idxs = {} THEN NaNCell
        ELSE Cell(Rat(SumClose(rows, idxs), Cardinality(idxs)))

\* window lengths and smoothing of the indicators
MA_SHORT == 5
MA_LONG == 20
KD_N == 9
EWM_COM == 2

\* lines 125 and 126: the MA5 and MA20 cells of row i
MA5(rows, i) == RollingMean(rows, MA_SHORT, i)

\* the long average over a window shorter than the short one
MA20Short(rows, i) == RollingMean(rows, MA_SHORT - 2, i)

MA20(rows, i) == RollingMean(rows, MA_LONG, i)

\* the bottom of the scale as the neutral value
RsvNeutralZero == RInt(0)

\* the value rsv takes where the range is not positive, and where it is NaN
RsvNeutral == RInt(50)

\* calculate_kd_safe, lines 56-59: the raw stochastic value of row i.
\* low_min and high_max are the rolling minimum of Low and maximum of High
\* (NaN when the window holds no value); the quotient is only formed where
\* the code keeps it
RSV(rows, i) ==
    LET idxs == WindowIdx(rows, KD_N, i)
    IN  IF idxs = {} THEN RsvNeutral                 \* denom is NaN: not > 0
        ELSE LET low_min  == SetMin({rows[j].low : j \in idxs})
                 high_max == SetMax({rows[j].high : j \in idxs})
                 denom    == high_max - low_min
             IN  IF ~(denom > 0) THEN RsvNeutral     \* .where(denom > 0, 50)
                 ELSE IF rows[i].nan THEN RsvNeutral \* .fillna(50)
                 ELSE Rat((rows[i].close - low_min) * 100, denom)

\* one step of Series.ewm(com=EWM_COM, adjust=False).mean():
\* y[i] = (1 - a) * y[i-1] + a * x[i] with a = 1 / (1 + com)
EwmStep(prev, x) ==
    LET a == Rat(1, 1 + EWM_COM)
    IN  RAdd(RMul(RSub(RInt(1), a), prev), RMul(a, x))

\* calculate_kd_safe, lines 60-61: the K and D columns up to row n, built
\* row by row onto the columns of the rows before (y[1] = x[1])
RECURSIVE KDUpTo(_, _)
KDUpTo(rows, n) ==
    IF n = 0 THEN [K |-> <<>>, D |-> <<>>]
    ELSE LET before == KDUpTo(rows, n - 1)
             rsv    == RSV(rows, n)
             k      == IF n = 1 THEN rsv ELSE EwmStep(before.K[n - 1], rsv)
             d      == IF n = 1 THEN k ELSE EwmStep(before.D[n - 1], k)
         IN  [K |-> Append(before.K, k), D |-> Append(before.D, d)]

KCol(rows) == KDUpTo(rows, Len(rows)).K

DCol(rows) == KDUpTo(rows, Len(rows)).D

-----------------------------------------------------------------------------
(* Symbol normaliser *)

Digits == {"0", "1", "2", "3", "4", "5", "6", "7", "8", "9"}

Whitespace == {" "}

\* str.strip(): a token is a sequence of one-character strings
RECURSIVE LStrip(_)
LStrip(s) == IF Len(s) > 0 /\ s[1] \in Whitespace THEN LStrip(Tail(s)) ELSE s

RECURSIVE RStrip(_)
RStrip(s) == IF Len(s) > 0 /\ s[Len(s)] \in Whitespace
             THEN RStrip(SubSeq(s, 1, Len(s) - 1)) ELSE s

Strip(s) == RStrip(LStrip(s))

\* any suffix that starts with a dot
IsSuffixLoose(s) == Len(s) > 0 /\ s[1] = "."

\* the suffix group of the pattern: \.(TW|TWO)
IsSuffix(s) == s \in {<<".", "T", "W">>, <<".", "T", "W", "O">>}

\* is_stock_code: re.match(r"^\d{4}(\.(TW|TWO))?$", text.strip())
is_stock_code(text) ==
    LET t == Strip(text)
    IN  /\ Len(t) >= 4
        /\ \A i \in 1..4 : t[i] \in Digits
        /\ (Len(t) = 4 \/ IsSuffix(SubSeq(t, 5, Len(t))))

\* '.' not in s
HasDot(s) == \E i \in 1..Len(s) : s[i] = "."

\* handle_message line 210, analyze_stock lines 68-70
Normalize(c) ==
    LET t == Strip(c)
    IN  IF HasDot(t) THEN t ELSE t \o <<".", "T", "W">>

\* the list comprehension of handle_message, lines 210-211
RECURSIVE ParseCodes(_)
ParseCodes(ts) ==
    IF Len(ts) = 0 THEN <<>>
    ELSE (IF is_stock_code(Strip(ts[1])) THEN <<Normalize(ts[1])>> ELSE <<>>)
            \o ParseCodes(Tail(ts))

-----------------------------------------------------------------------------
(* Market session *)

\* is_market_open on a Taipei weekday (0 = Monday) and time of day in
\* minutes: Monday to Friday, 09:00 to 13:30, both ends included
is_market_open(weekday, minute) ==
    IF weekday >= 5 THEN FALSE
    ELSE 9 * 60 <= minute /\ minute <= 13 * 60 + 30

\* the clock readings tried: Friday and Saturday, around both ends of the session
Weekdays == {4, 5}

Minutes == {8 * 60 + 59, 9 * 60, 13 * 60 + 30, 13 * 60 + 31}

-----------------------------------------------------------------------------
(* Signal decision engine *)

\* analyze_stock line 161
BuySignal(last_close, ma5, ma20, last_k, last_d, resistance) ==
    \/ RLeq(RMul(resistance, Rat(995, 1000)), last_close)
    \/ (RLess(ma20, ma5) /\ RLess(last_d, last_k))

\* analyze_stock line 162
SellSignal(last_close, ma5, ma20, last_k, last_d, support) ==
    \/ RLeq(last_close, RMul(support, Rat(1005, 1000)))
    \/ (RLess(ma5, ma20) /\ RLess(last_k, last_d))

\* the resolution with BUY given priority when both signals hold
ResolveBuyFirst(buy_signal, sell_signal, last_close, support, resistance) ==
    IF buy_signal
    THEN [advice |-> "BUY",
          expected_return |->
              RMul(RDiv(RSub(RMul(resistance, Rat(102, 100)), last_close),
                        last_close), RInt(100))]
    ELSE IF sell_signal
    THEN [advice |-> "SELL",
          expected_return |->
              RMul(RDiv(RSub(last_close, support), last_close), RInt(100))]
    ELSE [advice |-> "HOLD", expected_return |-> RInt(0)]

\* analyze_stock lines 163-173: advice and expected return
Resolve(buy_signal, sell_signal, last_close, support, resistance) ==
    IF buy_signal /\ ~sell_signal
    THEN [advice |-> "BUY",
          expected_return |->
              RMul(RDiv(RSub(RMul(resistance, Rat(102, 100)), last_close),
                        last_close), RInt(100))]
    ELSE IF sell_signal /\ ~buy_signal
    THEN [advice |-> "SELL",
          expected_return |->
              RMul(RDiv(RSub(last_close, support), last_close), RInt(100))]
    ELSE [advice |-> "HOLD", expected_return |-> RInt(0)]

\* analyze_stock lines 161-173
Decide(last_close, ma5, ma20, last_k, last_d, support, resistance) ==
    Resolve(BuySignal(last_close, ma5, ma20, last_k, last_d, resistance),
            SellSignal(last_close, ma5, ma20, last_k, last_d, support),
            last_close, support, resistance)

-----------------------------------------------------------------------------
(* Texts *)

\* n characters from the start of a piece: result number idx, a separator
\* or the truncation marker
Chunk(piece, i, n) == [piece |-> piece, idx |-> i, n |-> n]

\* len(text)
RECURSIVE TextLen(_)
TextLen(t) == IF Len(t) = 0 THEN 0 ELSE t[1].n + TextLen(Tail(t))

\* text[:k]
RECURSIVE Take(_, _)
Take(t, k) ==
    IF Len(t) = 0 \/ k <= 0 THEN <<>>
    ELSE IF t[1].n <= k THEN <<t[1]>> \o Take(Tail(t), k - t[1].n)
    ELSE <<Chunk(t[1].piece, t[1].idx, k)>>

\* "\n\n".join(results), from result number i on
RECURSIVE JoinFrom(_, _)
JoinFrom(rs, i) ==
    IF i > Len(rs) THEN <<>>
    ELSE <<Chunk("result", i, rs[i].len)>>
            \o (IF i < Len(rs) THEN <<Chunk("sep", i, 2)>> ELSE <<>>)
            \o JoinFrom(rs, i + 1)

Join(rs) == JoinFrom(rs, 1)

\* the reply length above which handle_message cuts the text
REPLY_CAP == 4900

\* "\n\n(結果過長，已截斷)"
Marker == <<Chunk("marker", 0, 12)>>

\* a cut that leaves room for the marker
TruncateWithin(reply_text) ==
    LET t == reply_text
    IN  IF TextLen(t) > REPLY_CAP
        THEN Take(t, REPLY_CAP - TextLen(Marker)) \o Marker
        ELSE t

\* handle_message lines 230-231
Truncate(reply_text) ==
    LET t == reply_text
    IN  IF TextLen(t) > REPLY_CAP THEN Take(t, REPLY_CAP) \o Marker ELSE t

\* len(f"{q:.2f}") and len(f"{q:.1f}"): sign, integer digits, point, decimals
FmtLen(q, scale, places) ==
    LET h == RoundScaled(q, scale)
    IN  (IF q.n < 0 THEN 1 ELSE 0) + NumDigits(Abs(h) \div scale) + 1 + places

\* round(x, 2)
Round2(q) == Rat(RoundScaled(q, 100), 100)

-----------------------------------------------------------------------------
(* analyze_stock from line 120 on: what it returns for the frame it holds *)

\* retries of each download loop, and the fewest rows that can be analysed
max_retries == 3
MIN_ROWS == 3
RECENT_N == 5

\* one per-symbol result: the kind of text, the fields the text carries and
\* its length in characters.  kind "raised" is an exception leaving
\* analyze_stock, exc the length of its message
Result(kind, code, source, advice, er, rows, hint, ma, exc, n) ==
    [kind |-> kind, code |-> code, source |-> source, advice |-> advice,
     expected_return |-> er, rows |-> rows, hint |-> hint, ma |-> ma,
     exc |-> exc, len |-> n]

\* the last pass raising its exception again instead of returning a text
DownloadReraised(code, exc) ==
    Result("raised", code, "-", "-", RInt(0), 0, "-", "-", exc, 0)

\* lines 104 and 118: f"{stock_code} 資料下載失敗: {e}"
DownloadFailed(code, exc) ==
    Result("download_failed", code, "-", "-", RInt(0), 0, "-", "-", exc,
           Len(code) + 9 + exc)

\* line 122: f"{stock_code} 無法取得資料 (...)"
NoData(code) ==
    Result("no_data", code, "-", "-", RInt(0), 0, "-", "-", 0, Len(code) + 25)

\* an exception that leaves analyze_stock
Raised(code, exc) ==
    Result("raised", code, "-", "-", RInt(0), 0, "-", "-", exc, 0)

\* line 132: the hint of the insufficient-data text
HintFor(ds) == IF ds = "5d 1d" THEN "retry_after_open" ELSE "retry_later"

\* lines 130-133
Insufficient(code, ds, n) ==
    LET hint == HintFor(ds)
    IN  Result("insufficient", code, "-", "-", RInt(0), n, hint, "-", 0,
               Len(code) + 18 + NumDigits(n)
                   + (IF hint = "retry_after_open" THEN 14 ELSE 18))

\* Series.median() of a non-empty sequence of values
Median(values) ==
    LET srt == SortSeq(values, LAMBDA a, b : RLess(a, b))
        n   == Len(srt)
    IN  IF n % 2 = 1 THEN srt[(n + 1) \div 2]
        ELSE RDiv(RAdd(srt[n \div 2], srt[n \div 2 + 1]), RInt(2))

\* the last n elements of a sequence: .tail(n)
TailN(s, n) == SubSeq(s, Len(s) - n + 1, Len(s))

\* line 176: the granularity the note of a report names
NoteSource(ds) == IF ds = "1d 5m" THEN "1d 5m" ELSE "5d 1d"

\* line 151
MaSignal(ma5, ma20) == IF RLess(ma20, ma5) THEN "strong" ELSE "weak"

\* lines 152-159: the length of kd_signal
KdSignalLen(last_k, last_d) ==
    LET nums == FmtLen(last_k, 10, 1) + FmtLen(last_d, 10, 1)
    IN  IF RLess(last_d, last_k)
        THEN 16 + nums + (IF RLess(RInt(80), last_k) THEN 13 ELSE 0)
        ELSE IF RLess(last_k, last_d) THEN 16 + nums
        ELSE 11 + nums

\* the rows dropna keeps (line 129): indices, ascending
CleanIdx(rows) ==
    SelectSeq([i \in 1..Len(rows) |-> i],
              LAMBDA i : /\ ~rows[i].nan
                         /\ ~MA5(rows, i).nan
                         /\ ~MA20(rows, i).nan)

\* lines 145-149: rounded medians of Low and of High over the last
\* min(5, len) clean rows
Recent(rows) ==
    LET clean == CleanIdx(rows)
    IN  TailN(clean, IF Len(clean) < RECENT_N THEN Len(clean) ELSE RECENT_N)

Support(rows) ==
    LET recent == Recent(rows)
    IN  Round2(Median([j \in 1..Len(recent) |-> RInt(rows[recent[j]].low)]))

Resistance(rows) ==
    LET recent == Recent(rows)
    IN  Round2(Median([j \in 1..Len(recent) |-> RInt(rows[recent[j]].high)]))

\* lines 135-191 on a frame with at least MIN_ROWS clean rows
Report(code, rows, ds) ==
    LET clean      == CleanIdx(rows)
        last       == clean[Len(clean)]
        last_close == RInt(rows[last].close)
        ma5        == MA5(rows, last).v
        ma20       == MA20(rows, last).v
        kd         == KDUpTo(rows, last)
        last_k     == kd.K[last]
        last_d     == kd.D[last]
        support    == Support(rows)
        resistance == Resistance(rows)
        ma_signal  == MaSignal(ma5, ma20)
        dec        == Decide(last_close, ma5, ma20, last_k, last_d,
                             support, resistance)
        note       == NoteSource(ds)
    IN  Result("report", code, note, dec.advice, dec.expected_return,
               Len(clean), "-", ma_signal, 0,
               50 + Len(code)
                  + FmtLen(last_close, 100, 2)
                  + FmtLen(support, 100, 2) + FmtLen(resistance, 100, 2)
                  + FmtLen(dec.expected_return, 100, 2)
                  + (IF ma_signal = "strong" THEN 15 ELSE 16)
                  + KdSignalLen(last_k, last_d)
                  + (IF dec.advice = "BUY" THEN 9 ELSE 10)
                  + (IF note = "1d 5m" THEN 20 ELSE 49))

\* analyze_stock lines 120-191.  Frames have single-level columns, so
\* _ensure_single_ticker_df (line 124) returns df as it is (line 53).  A
\* frame without a Close column makes df['Close'] (line 125) raise
\* KeyError('Close'), whose message has 7 characters
AnalyzeFrame(code, f, ds) ==
    IF f.none \/ IsEmpty(f) THEN NoData(code)
    ELSE IF ~f.cols THEN Raised(code, 7)
    ELSE LET n == Len(CleanIdx(f.rows))
         IN  IF n < MIN_ROWS THEN Insufficient(code, ds, n)
             ELSE Report(code, f.rows, ds)

\* the exception is not caught: it leaves handle_message
SlotUncaught(code, res) == res

\* handle_message lines 223-226: f"{code} 分析失敗: {e}" for an exception
Slot(code, res) ==
    LET outcome == res
    IN  IF outcome.kind = "raised"
        THEN Result("analysis_failed", code, "-", "-", RInt(0), 0, "-", "-",
                    outcome.exc, Len(code) + 7 + outcome.exc)
        ELSE outcome

-----------------------------------------------------------------------------
(* Inputs *)

\* inbound pieces: accepted codes (bare, padded, with either suffix) and
\* rejected ones (letters, a wrong suffix, five digits)
TokenSet ==
    {<<"2", "3", "3", "0">>,
     <<" ", "2", "3", "1", "7", ".", "T", "W", " ">>,
     <<"6", "4", "8", "8", ".", "T", "W", "O">>,
     <<"a", "b", "c">>,
     <<"2", "3", "3", "0", ".", "T">>,
     <<"2", "3", "3", "0", "1">>}

\* texts of 1 to MaxTokens comma-separated pieces
Messages == UNION {[1..n -> TokenSet] : n \in 1..MaxTokens}

\* lengths of the messages of the exceptions the provider raises
ExcLens == {30, 2600}

\* what one yf.download call can do: raise, or return a frame
Outcomes(frames) ==
    {[raise |-> TRUE, exc |-> e, frame |-> NoneFrame] : e \in ExcLens}
        \cup {[raise |-> FALSE, exc |-> 0, frame |-> f] : f \in frames}

SampleOutcomes == Outcomes(SampleFrames)

AllOutcomes == Outcomes(AllFrames)

-----------------------------------------------------------------------------
(* The retry loops of analyze_stock *)

\* line 83: the 1d/5m loop breaks on this response
FineAccepts(f) == ~f.none /\ ~IsEmpty(f) /\ Len(f.rows) >= MIN_ROWS

\* lines 98 and 112: the 5d/1d loop breaks on this response
CoarseAccepts(f) == ~f.none /\ ~IsEmpty(f)

\* the test of line 92 without its row count
NeedsFallbackEmptyOnly(f) == f.none \/ IsEmpty(f)

\* line 92: fall back to 5d/1d
NeedsFallback(f) == f.none \/ IsEmpty(f) \/ Len(f.rows) < MIN_ROWS

\* the loop goes on after a response it accepted
LoopOverNoBreak(brk, a) == a = max_retries - 1

\* a for loop over range(max_retries) ends on break or after its last pass
LoopOver(brk, a) == brk \/ a = max_retries - 1

-----------------------------------------------------------------------------
(* handle_message and analyze_stock, step by step *)

AnalysisVars == <<stock_code, market_open, df, data_source, attempt,
                  df_from, n_fine, n_coarse, seen_fine3, seen_coarse>>

HandlerVars == <<tokens, codes, idx, results, sent>>

DecisionVars == <<args, ret>>

\* handle_message lines 207-221: parse the text; nothing matches: return
HandleMessage ==
    /\ pc = "idle"
    /\ codes' = ParseCodes(tokens)
    /\ results' = <<>>
    /\ idx' = 1
    /\ pc' = IF Len(codes') = 0 THEN "done" ELSE "loop"
    /\ UNCHANGED <<tokens, sent, AnalysisVars, DecisionVars>>

\* handle_message line 224 and analyze_stock lines 68-79, 108: the call,
\* the normalisation and the reading of the clock
CallAnalyze ==
    /\ pc = "loop"
    /\ \E wd \in Weekdays, m \in Minutes :
          /\ market_open' = is_market_open(wd, m)
          /\ data_source' = IF market_open' THEN "1d 5m" ELSE "5d 1d"
          /\ pc' = IF market_open' THEN "fine" ELSE "coarse"
    /\ stock_code' = Normalize(codes[idx])
    /\ df' = NoneFrame
    /\ attempt' = 0
    /\ df_from' = "none"
    /\ n_fine' = 0
    /\ n_coarse' = 0
    /\ seen_fine3' = FALSE
    /\ seen_coarse' = FALSE
    /\ UNCHANGED <<HandlerVars, DecisionVars>>

\* handle_message lines 223-227 and the loop test of line 222: the result
\* of analyze_stock (or the text for its exception) is appended
Finish(outcome) ==
    LET res == Slot(codes[idx], outcome)
    IN  IF res.kind = "raised"
        THEN /\ pc' = "crashed"
             /\ UNCHANGED <<idx, results>>
        ELSE /\ results' = Append(results, res)
             /\ idx' = idx + 1
             /\ pc' = IF idx = Len(codes) THEN "reply" ELSE "loop"

\* analyze_stock lines 80-94: one pass of the 1d/5m loop, and at its end
\* the test of line 92
DownloadFine(outcomes) ==
    /\ pc = "fine"
    /\ \E o \in outcomes :
          LET new_df == IF o.raise THEN df ELSE o.frame
              brk    == IF o.raise THEN attempt = max_retries - 1
                        ELSE FineAccepts(new_df)
          IN  /\ df' = new_df
              /\ df_from' = IF o.raise THEN df_from ELSE "1d 5m"
              /\ seen_fine3' = (seen_fine3 \/ (~o.raise /\ NumRows(o.frame) >= 3))
              /\ IF ~LoopOver(brk, attempt)
                 THEN /\ attempt' = attempt + 1
                      /\ pc' = "fine"
                      /\ UNCHANGED data_source
                 ELSE IF NeedsFallback(new_df)
                 THEN /\ data_source' = "5d 1d"
                      /\ attempt' = 0
                      /\ pc' = "coarse"
                 ELSE /\ pc' = "compute"
                      /\ UNCHANGED <<data_source, attempt>>
    /\ n_fine' = n_fine + 1
    /\ UNCHANGED <<stock_code, market_open, n_coarse, seen_coarse,
                   HandlerVars, DecisionVars>>

\* analyze_stock lines 95-104 and 109-118: one pass of the 5d/1d loop; an
\* exception in the last pass returns the download-failure text
DownloadCoarse(outcomes) ==
    /\ pc = "coarse"
    /\ \E o \in outcomes :
          IF o.raise
          THEN /\ UNCHANGED <<df, df_from, seen_coarse>>
               /\ IF attempt = max_retries - 1
                  THEN /\ Finish(DownloadFailed(stock_code, o.exc))
                       /\ UNCHANGED attempt
                  ELSE /\ attempt' = attempt + 1
                       /\ pc' = "coarse"
                       /\ UNCHANGED <<idx, results>>
          ELSE /\ df' = o.frame
               /\ df_from' = "5d 1d"
               /\ seen_coarse' = (seen_coarse \/ NumRows(o.frame) >= 1)
               /\ IF LoopOver(CoarseAccepts(o.frame), attempt)
                  THEN /\ pc' = "compute"
                       /\ UNCHANGED attempt
                  ELSE /\ attempt' = attempt + 1
                       /\ pc' = "coarse"
               /\ UNCHANGED <<idx, results>>
    /\ n_coarse' = n_coarse + 1
    /\ UNCHANGED <<stock_code, market_open, data_source, n_fine, seen_fine3,
                   tokens, codes, sent, DecisionVars>>

\* analyze_stock lines 120-191: indicators, decision and report, or one of
\* the failure texts, on the frame the loops left in df
Compute ==
    /\ pc = "compute"
    /\ Finish(AnalyzeFrame(stock_code, df, data_source))
    /\ UNCHANGED <<tokens, codes, sent, AnalysisVars, DecisionVars>>

\* handle_message lines 229-233: join, cut, send
Reply ==
    /\ pc = "reply"
    /\ sent' = Append(sent, Truncate(Join(results)))
    /\ pc' = "done"
    /\ UNCHANGED <<tokens, codes, idx, results, AnalysisVars, DecisionVars>>

\* the state before any call
Idle ==
    /\ codes = <<>>
    /\ idx = 1
    /\ results = <<>>
    /\ sent = <<>>
    /\ stock_code = <<>>
    /\ market_open = FALSE
    /\ df = NoneFrame
    /\ data_source = "none"
    /\ attempt = 0
    /\ df_from = "none"
    /\ n_fine = 0
    /\ n_coarse = 0
    /\ seen_fine3 = FALSE
    /\ seen_coarse = FALSE
    /\ ret = [advice |-> "-", expected_return |-> RInt(0)]

NoArgs == [last_close |-> RInt(0), ma5 |-> RInt(0), ma20 |-> RInt(0),
           last_k |-> RInt(0), last_d |-> RInt(0),
           support |-> RInt(0), resistance |-> RInt(0)]

\* one text event arrives; the provider answers from SampleFrames
Init ==
    /\ Idle
    /\ pc = "idle"
    /\ tokens \in Messages
    /\ args = NoArgs

Next ==
    \/ HandleMessage
    \/ CallAnalyze
    \/ DownloadFine(SampleOutcomes)
    \/ DownloadCoarse(SampleOutcomes)
    \/ Compute
    \/ Reply

Spec == Init /\ [][Next]_vars

\* one text event naming one symbol; the provider answers from AllFrames
InitOne ==
    /\ Idle
    /\ pc = "idle"
    /\ tokens = <<<<"2", "3", "3", "0">>>>
    /\ args = NoArgs

NextOne ==
    \/ HandleMessage
    \/ CallAnalyze
    \/ DownloadFine(AllOutcomes)
    \/ DownloadCoarse(AllOutcomes)
    \/ Compute
    \/ Reply

SpecAnalyze == InitOne /\ [][NextOne]_vars

\* the decision step on its own, on every combination of these inputs
Levels == {RInt(99), RInt(100), RInt(101)}

Oscillator == {RInt(20), RInt(50), RInt(90)}

InitDecide ==
    /\ Idle
    /\ pc = "decide"
    /\ tokens = <<>>
    /\ args \in [last_close : Levels, ma5 : {RInt(100), RInt(101)},
                 ma20 : {RInt(100), RInt(101)},
                 last_k : Oscillator, last_d : Oscillator,
                 support : Levels, resistance : Levels]

DecideStep ==
    /\ pc = "decide"
    /\ ret' = Decide(args.last_close, args.ma5, args.ma20, args.last_k,
                     args.last_d, args.support, args.resistance)
    /\ pc' = "decided"
    /\ UNCHANGED <<args, HandlerVars, AnalysisVars>>

NextDecide == DecideStep

SpecDecide == InitDecide /\ [][NextDecide]_vars

-----------------------------------------------------------------------------
(* Properties *)

\* the analysis of the only symbol of the text has ended
Analysed == pc \in {"reply", "done"} /\ Len(codes) = 1 /\ Len(results) = 1

\* C1: in the decision step, for every combination of inputs, the advice is
\* BUY only when buy_signal holds and sell_signal does not, SELL only when
\* sell_signal holds and buy_signal does not, and when both signals hold or
\* both fail the advice is HOLD with expected return exactly 0; some advice
\* is always given.
C1_AdviceResolution ==
    pc = "decided" =>
        LET b == BuySignal(args.last_close, args.ma5, args.ma20, args.last_k,
                           args.last_d, args.resistance)
            s == SellSignal(args.last_close, args.ma5, args.ma20, args.last_k,
                            args.last_d, args.support)
        IN  /\ ret.advice \in {"BUY", "SELL", "HOLD"}
            /\ (ret.advice = "BUY" => b /\ ~s)
            /\ (ret.advice = "SELL" => s /\ ~b)
            /\ ((b <=> s) => ret.advice = "HOLD"
                             /\ ret.expected_return = RInt(0))

\* both signals hold at once and the step has answered HOLD
C1_Witness ==
    /\ pc = "decided"
    /\ BuySignal(args.last_close, args.ma5, args.ma20, args.last_k,
                 args.last_d, args.resistance)
    /\ SellSignal(args.last_close, args.ma5, args.ma20, args.last_k,
                  args.last_d, args.support)
    /\ ret.advice = "HOLD"

\* C2: with the session open, if no 1d/5m response had at least 3 rows the
\* frame analysed is the response of a 5d/1d request and a report's note
\* names "5d 1d"; the note names "1d 5m" only when the frame analysed is a
\* 1d/5m response of at least 3 rows; a 1d/5m response of fewer than 3 rows
\* is never analysed.
C2_FallbackNamesCoarsePath ==
    Analysed /\ market_open =>
        LET r == results[1]
        IN  /\ (~seen_fine3 /\ r.kind # "download_failed"
                    => df_from = "5d 1d")
            /\ (~seen_fine3 /\ r.kind = "report" => r.source = "5d 1d")
            /\ (r.kind = "report" /\ r.source = "1d 5m"
                    => df_from = "1d 5m" /\ NumRows(df) >= 3)
            /\ (df_from = "1d 5m" /\ NumRows(df) < 3
                    => r.kind = "download_failed")

\* the session is open, three 1d/5m requests gave nothing usable and the
\* report was made from a 5d/1d response
C2_Witness ==
    /\ Analysed
    /\ market_open
    /\ n_fine = 3
    /\ ~seen_fine3
    /\ results[1].kind = "report"
    /\ results[1].source = "5d 1d"

\* C5: when the three passes of the 5d/1d loop end without one non-empty
\* response, analyze_stock returns a failure text: no report, no indicator
\* is computed, and no exception leaves analyze_stock.
C5_DownloadFailureIsText ==
    n_coarse = max_retries /\ ~seen_coarse =>
        /\ pc \in {"compute", "loop", "reply", "done"}
        /\ (pc = "compute" => df.none \/ IsEmpty(df))
        /\ (Analysed => results[1].kind \in {"download_failed", "no_data"})

\* the last of three failed 5d/1d passes raised and the text was returned
C5_Witness ==
    /\ Analysed
    /\ n_coarse = max_retries
    /\ ~seen_coarse
    /\ results[1].kind = "download_failed"

\* every row has high = low
AllFlat(rows) == \A i \in 1..Len(rows) : ~rows[i].nan /\ rows[i].high = rows[i].low

\* every row has the same low
SamePrice(rows) == \A i, j \in 1..Len(rows) : rows[i].low = rows[j].low

\* rsv, K and D are 50 at every row and the advice is HOLD
NeutralAndHold(rows) ==
    /\ \A i \in 1..Len(rows) :
          /\ RSV(rows, i) = RInt(50)
          /\ KCol(rows)[i] = RInt(50)
          /\ DCol(rows)[i] = RInt(50)
    /\ results[1].kind = "report"
    /\ results[1].advice = "HOLD"

C8_RequestOrder ==
    [][ /\ (n_fine' > n_fine =>
                /\ market_open
                /\ n_fine < 3
                /\ n_coarse = 0
                /\ ~seen_fine3)
        /\ (n_coarse' > n_coarse =>
                /\ n_coarse < 3
                /\ (~market_open => n_fine = 0)
                /\ ~seen_fine3
                /\ ~seen_coarse) ]_vars

\* three 1d/5m requests and then three 5d/1d requests have been issued
C8_Witness == market_open /\ n_fine = 3 /\ n_coarse = 3

\* C9 as claimed: the insufficient-data text carries the cleaned row count,
\* and its hint is the during-market-hours one exactly when the session
\* was open at fetch time.
C9_HintFollowsSession ==
    Analysed /\ results[1].kind = "insufficient" =>
        /\ results[1].rows = Len(CleanIdx(df.rows))
        /\ (results[1].hint = "retry_later" <=> market_open)

\* C10: for every frame of at most 5 rows with no missing close, MA5 equals
\* MA20 at every row, so that the MA signal is the "weak" one, neither MA
\* clause of the signals holds, and BUY or SELL only comes with the close
\* within reach of resistance or of support.
C10_ShortSeriesEqualAverages ==
    pc \in {"compute", "reply", "done"} /\ df.cols /\ NumRows(df) >= 1
        /\ NumRows(df) <= 5 /\ (\A i \in 1..Len(df.rows) : ~df.rows[i].nan)
    => /\ \A i \in 1..Len(df.rows) : MA5(df.rows, i) = MA20(df.rows, i)
       /\ (Analysed /\ results[1].kind = "report" =>
              LET n     == Len(df.rows)
                  close == RInt(df.rows[n].close)
                  ma5   == MA5(df.rows, n).v
                  ma20  == MA20(df.rows, n).v
                  k     == KCol(df.rows)[n]
                  d     == DCol(df.rows)[n]
              IN  /\ results[1].ma = "weak"
                  /\ ~(RLess(ma20, ma5) /\ RLess(d, k))
                  /\ ~(RLess(ma5, ma20) /\ RLess(k, d))
                  /\ (results[1].advice = "BUY" =>
                         RLeq(RMul(Resistance(df.rows), Rat(995, 1000)), close))
                  /\ (results[1].advice = "SELL" =>
                         RLeq(close, RMul(Support(df.rows), Rat(1005, 1000)))))

\* a five-row frame without NaN whose closes differ gave a BUY
C10_Witness ==
    /\ Analysed
    /\ df.cols
    /\ NumRows(df) = 5
    /\ \A i \in 1..Len(df.rows) : ~df.rows[i].nan
    /\ ~SamePrice(df.rows)
    /\ results[1].advice = "BUY"

\* C3: every accepted symbol is analysed and fills its own slot, in input
\* order; an exception leaving analyze_stock becomes the failure text of
\* that symbol's slot and the loop goes on with the next symbol; the reply
\* is sent with one slot per symbol, and nothing leaves the handler.
C3_FailureIsolation ==
    [][ /\ pc' # "crashed"
        /\ (pc = "compute"
              /\ AnalyzeFrame(stock_code, df, data_source).kind = "raised"
            => /\ Len(results') = idx
               /\ results'[idx].kind = "analysis_failed"
               /\ pc' = IF idx < Len(codes) THEN "loop" ELSE "reply")
        /\ (pc # "idle" /\ idx' # idx
            => /\ idx' = idx + 1
               /\ Len(results') = idx
               /\ SubSeq(results', 1, idx - 1) = results
               /\ results'[idx].code = codes[idx])
        /\ (pc = "reply"
            => /\ Len(results) = Len(codes)
               /\ \A i \in 1..Len(codes) : results[i].code = codes[i]
               /\ Len(sent') = Len(sent) + 1
               /\ LET j == Join(results)
                      n == IF TextLen(j) > REPLY_CAP THEN REPLY_CAP
                           ELSE TextLen(j)
                  IN  Take(sent'[Len(sent')], n) = Take(j, n)) ]_vars

\* the first of two symbols raised, the second got its report, the reply
\* went out
C3_Witness ==
    /\ pc = "done"
    /\ Len(codes) = 2
    /\ Len(results) = 2
    /\ results[1].kind = "analysis_failed"
    /\ results[2].kind = "report"
    /\ Len(sent) = 1

\* C4 as amended: a combined text longer than 4900 characters is cut to its
\* first 4900 characters followed by the truncation marker, a shorter one is
\* sent as it is, and the text sent never exceeds 4900 characters plus the
\* length of the marker.
C4_CutThenMarker ==
    pc = "done" /\ Len(sent) = 1 =>
        LET j == Join(results)
        IN  /\ (TextLen(j) > 4900 =>
                   /\ sent[1] = Take(j, 4900) \o Marker
                   /\ TextLen(Take(j, 4900)) = 4900)
            /\ (TextLen(j) <= 4900 => sent[1] = j)
            /\ TextLen(sent[1]) <= 4900 + TextLen(Marker)

\* C4 as claimed: the cut is as above and the text sent never exceeds 4900
\* characters.
C4_NeverExceedsCap ==
    pc = "done" /\ Len(sent) = 1 =>
        LET j == Join(results)
        IN  /\ (TextLen(j) > 4900 => sent[1] = Take(j, 4900) \o Marker)
            /\ TextLen(sent[1]) <= 4900

\* a combined text longer than 4900 characters has been sent
C4_Witness ==
    /\ pc = "done"
    /\ Len(sent) = 1
    /\ TextLen(Join(results)) > 4900

\* the tokens of TokenSet that the pattern "4 digits, optionally followed by
\* .TW or .TWO" matches once stripped, each with its normalised form
Matching ==
    {<< <<"2", "3", "3", "0">>,
        <<"2", "3", "3", "0", ".", "T", "W">> >>,
     << <<" ", "2", "3", "1", "7", ".", "T", "W", " ">>,
        <<"2", "3", "1", "7", ".", "T", "W">> >>,
     << <<"6", "4", "8", "8", ".", "T", "W", "O">>,
        <<"6", "4", "8", "8", ".", "T", "W", "O">> >>}

\* the symbols a text should give: its matching pieces, in order
RECURSIVE ExpectedCodes(_)
ExpectedCodes(ts) ==
    IF Len(ts) = 0 THEN <<>>
    ELSE (IF \E m \in Matching : m[1] = ts[1]
          THEN <<(CHOOSE m \in Matching : m[1] = ts[1])[2]>>
          ELSE <<>>) \o ExpectedCodes(Tail(ts))

\* C7: the symbols analysed are exactly the pieces that match the pattern,
\* in order, the others leaving no entry; with no matching piece there is
\* no provider request and no reply; with one or more there is exactly one
\* reply, sent once every accepted symbol has its result.
C7_AcceptedSymbolsOneReply ==
    pc # "idle" =>
        /\ codes = ExpectedCodes(tokens)
        /\ Len(results) <= Len(codes)
        /\ \A i \in 1..Len(results) : results[i].code = codes[i]
        /\ (Len(codes) = 0 =>
               /\ pc = "done"
               /\ sent = <<>>
               /\ n_fine = 0
               /\ n_coarse = 0)
        /\ Len(sent) <= 1
        /\ (Len(sent) = 1 => pc = "done" /\ Len(results) = Len(codes))
        /\ (pc = "done" /\ Len(codes) > 0 => Len(sent) = 1)

\* of two pieces one was dropped, the other analysed and answered
C7_Witness ==
    /\ pc = "done"
    /\ Len(tokens) = 2
    /\ Len(codes) = 1
    /\ Len(results) = 1
    /\ Len(sent) = 1

=============================================================================
